---- MODULE Spec2Model ----
(***************************************************************************)
(* ROHC compressor: the Uncompressed profile (c_uncompressed.c) and the    *)
(* UDP profile (c_udp.c), modelled as state machines over one context.     *)
(***************************************************************************)
EXTENDS Integers, Sequences, FiniteSets, TLC

(***************************************************************************)
(* Bounds of the model                                                     *)
(***************************************************************************)
\* largest periodic_refreshes_ir_timeout drawn at construction
MaxIrTimeout == 2
\* encode calls are explored while normal_count < ir_timeout + MaxOverrun
MaxOverrun == 1
\* largest dest_size handed to an encode call
MaxDestSize == 5
\* encode calls on a UDP context are explored while its counters are below
MaxUdpCount == 5
MaxWrapDistance == 2

(***************************************************************************)
(* Program constants                                                       *)
(***************************************************************************)
\* rohc_comp_internals.h: number of IR packets sent before leaving IR
MAX_IR_COUNT == 3
\* rohc_c_state
IR == "IR"
FO == "FO"
SO == "SO"
\* rohc_mode
U_MODE == 1
O_MODE == 2
R_MODE == 3
\* acktype of struct c_feedback
ACK == 0
NACK == 1
STATIC_NACK == 2
RESERVED == 3
\* rohc_packet_t
PACKET_IR == "PACKET_IR"
PACKET_NORMAL == "PACKET_NORMAL"
PACKET_UNKNOWN == "PACKET_UNKNOWN"
ROHC_PACKET_IR == "ROHC_PACKET_IR"
ROHC_PACKET_IR_DYN == "ROHC_PACKET_IR_DYN"
ROHC_PACKET_UOR_2 == "ROHC_PACKET_UOR_2"
ROHC_PACKET_UO_0 == "ROHC_PACKET_UO_0"
\* rohc_cid_type_t
ROHC_SMALL_CID == "ROHC_SMALL_CID"
ROHC_LARGE_CID == "ROHC_LARGE_CID"
ROHC_PROFILE_UNCOMPRESSED == 0

Byte == 0..255
\* content of a buffer octet that no code wrote
UNWRITTEN == -1

Min(a, b) == IF a < b THEN a ELSE b
Max(a, b) == IF a > b THEN a ELSE b

(***************************************************************************)
(* Bit operations on octets                                                *)
(***************************************************************************)
RECURSIVE XorBits(_, _, _)
XorBits(a, b, n) ==
    IF n = 0 THEN 0
    ELSE (((a % 2) + (b % 2)) % 2) + 2 * XorBits(a \div 2, b \div 2, n - 1)

XorNibble == [a \in 0..15 |-> [b \in 0..15 |-> XorBits(a, b, 4)]]

Xor8(a, b) ==
    (16 * XorNibble[a \div 16][b \div 16]) + XorNibble[a % 16][b % 16]

(***************************************************************************)
(* CRC-8 (crc.c): table driven, polynomial 0xe0, init 0xff                 *)
(***************************************************************************)
CRC_INIT_8 == 255

RECURSIVE crc_table_entry(_, _, _)
crc_table_entry(crc, polynom, j) ==
    IF j = 0 THEN crc
    ELSE crc_table_entry(IF (crc % 2) = 1 THEN Xor8(crc \div 2, polynom)
                                        ELSE crc \div 2,
                         polynom, j - 1)

crc_table_8 == [i \in Byte |-> crc_table_entry(i, 224, 8)]

RECURSIVE crc_calc_from(_, _, _, _)
crc_calc_from(data, i, length, crc) ==
    IF i > length THEN crc
    ELSE crc_calc_from(data, i + 1, length, crc_table_8[Xor8(data[i], crc)])

\* crc_calculate(CRC_TYPE_8, data, length, init_val, table)
crc_calculate(data, length, init_val) == crc_calc_from(data, 1, length, init_val)

(***************************************************************************)
(* State                                                                   *)
(***************************************************************************)
VARIABLES
    compressor,   \* configuration: cid_type, periodic_refreshes_ir_timeout
    context,      \* the Uncompressed context: cid, state, mode and counters
    last,         \* the last call made on the context: its inputs and results
    hist,         \* history of the calls made on the context
    udp_context,  \* the UDP context: generic RFC 3095 part and UDP part
    udp_last      \* the last call made on the UDP context

unc_vars == <<compressor, context, last, hist>>
udp_vars == <<udp_context, udp_last>>
vars == <<compressor, context, last, hist, udp_context, udp_last>>

(***************************************************************************)
(* Mode and state transitions of the Uncompressed profile                  *)
(***************************************************************************)
\* mutant of uncompressed_change_state: the state changes and the counters
\* are left as they are
uncompressed_change_state_NoReset(ctx, new_state) ==
    IF ctx.state # new_state
    THEN [ctx EXCEPT !.state = new_state]
    ELSE ctx

\* uncompressed_change_state: counters are reset only on a change of state
uncompressed_change_state(ctx, new_state) ==
    IF ctx.state # new_state
    THEN [ctx EXCEPT !.ir_count = 0, !.normal_count = 0, !.state = new_state]
    ELSE ctx

\* uncompressed_change_mode
uncompressed_change_mode(ctx, new_mode) ==
    IF ctx.mode # new_mode
    THEN uncompressed_change_state([ctx EXCEPT !.mode = new_mode], IR)
    ELSE ctx

\* mutant of uncompressed_periodic_down_transition: go_back_ir_count counts
\* the packets of IR state too
uncompressed_periodic_down_transition_CountsIR(ctx, comp) ==
    LET c1 == IF ctx.go_back_ir_count >= comp.periodic_refreshes_ir_timeout
              THEN uncompressed_change_state(
                       [ctx EXCEPT !.go_back_ir_count = 0], IR)
              ELSE ctx
    IN  [c1 EXCEPT !.go_back_ir_count = @ + 1]

\* mutant of uncompressed_periodic_down_transition: > for >= in the test of
\* go_back_ir_count
uncompressed_periodic_down_transition_GT(ctx, comp) ==
    LET c1 == IF ctx.go_back_ir_count > comp.periodic_refreshes_ir_timeout
              THEN uncompressed_change_state(
                       [ctx EXCEPT !.go_back_ir_count = 0], IR)
              ELSE ctx
    IN  IF c1.state = FO
        THEN [c1 EXCEPT !.go_back_ir_count = @ + 1]
        ELSE c1

\* uncompressed_periodic_down_transition
uncompressed_periodic_down_transition(ctx, comp) ==
    LET c1 == IF ctx.go_back_ir_count >= comp.periodic_refreshes_ir_timeout
              THEN uncompressed_change_state(
                       [ctx EXCEPT !.go_back_ir_count = 0], IR)
              ELSE ctx
    IN  IF c1.state = FO
        THEN [c1 EXCEPT !.go_back_ir_count = @ + 1]
        ELSE c1

\* mutant of uncompressed_decide_state: the context leaves IR for SO, as the
\* contexts of the other profiles do
uncompressed_decide_state_SO(ctx, comp) ==
    LET c1 == IF ctx.state = IR /\ ctx.ir_count >= MAX_IR_COUNT
              THEN uncompressed_change_state(ctx, SO)
              ELSE ctx
    IN  IF c1.mode = U_MODE
        THEN uncompressed_periodic_down_transition(c1, comp)
        ELSE c1

\* mutant of uncompressed_decide_state: > for >= in the test of ir_count
uncompressed_decide_state_GT(ctx, comp) ==
    LET c1 == IF ctx.state = IR /\ ctx.ir_count > MAX_IR_COUNT
              THEN uncompressed_change_state(ctx, FO)
              ELSE ctx
    IN  IF c1.mode = U_MODE
        THEN uncompressed_periodic_down_transition(c1, comp)
        ELSE c1

\* mutant of uncompressed_decide_state: the periodic refresh in every mode
uncompressed_decide_state_AnyMode(ctx, comp) ==
    LET c1 == IF ctx.state = IR /\ ctx.ir_count >= MAX_IR_COUNT
              THEN uncompressed_change_state(ctx, FO)
              ELSE ctx
    IN  uncompressed_periodic_down_transition(c1, comp)

\* uncompressed_decide_state
uncompressed_decide_state(ctx, comp) ==
    LET c1 == IF ctx.state = IR /\ ctx.ir_count >= MAX_IR_COUNT
              THEN uncompressed_change_state(ctx, FO)
              ELSE ctx
    IN  IF c1.mode = U_MODE
        THEN uncompressed_periodic_down_transition(c1, comp)
        ELSE c1

(***************************************************************************)
(* Packet coding of the Uncompressed profile                               *)
(***************************************************************************)
\* mutant of c_uncompressed_check_context: only IPv4 packets belong to the
\* context
c_uncompressed_check_context_IPv4(ctx, ip) ==
    IF ip[1] \div 16 = 4 THEN 1 ELSE 0

\* c_uncompressed_check_context: every IP packet belongs to the context
c_uncompressed_check_context(ctx, ip) == 1

\* dest[i] = v on a buffer given by the octets written so far (0-based i)
Write(dest, i, v) ==
    [j \in 1..Max(Len(dest), i + 1) |->
        IF j = i + 1 THEN v ELSE IF j <= Len(dest) THEN dest[j] ELSE UNWRITTEN]

\* c_add_cid: the Add-CID octet 1110 CCCC
c_add_cid(cid) == 224 + (cid % 16)

\* c_bytesSdvl: number of octets of the SDVL encoding of a large CID
c_bytesSdvl(value) == IF value < 128 THEN 1 ELSE 2

\* c_encodeSdvl: 0xxxxxxx, or 10xxxxxx xxxxxxxx
c_encodeSdvl(dest, pos, value) ==
    IF value < 128
    THEN Write(dest, pos, value)
    ELSE Write(Write(dest, pos, 128 + ((value \div 256) % 64)),
               pos + 1, value % 256)

\* code_cid_values: Add-CID octet or large CID info; the first octet of the
\* packet goes at first_position, the rest starts at counter
code_cid_values(cid_type, cid, dest, dest_size) ==
    IF cid_type = ROHC_SMALL_CID
    THEN IF cid > 0
         THEN [dest |-> Write(dest, 0, c_add_cid(cid)),
               first_position |-> 1, counter |-> 2]
         ELSE [dest |-> dest, first_position |-> 0, counter |-> 1]
    ELSE [dest |-> c_encodeSdvl(dest, 1, cid),
          first_position |-> 0, counter |-> 1 + c_bytesSdvl(cid)]

\* mutant of uncompressed_code_IR_packet: the CRC is computed on the octets
\* before the CRC octet only
uncompressed_code_IR_packet_CrcScope(ctx, comp, ip, dest, dest_size) ==
    LET cv == code_cid_values(comp.cid_type, ctx.cid, dest, dest_size)
        d2 == Write(cv.dest, cv.first_position, 252)
        d4 == Write(d2, cv.counter, ROHC_PROFILE_UNCOMPRESSED)
        c5 == cv.counter + 1
        d5 == Write(d4, c5, 0)
        d6 == Write(d5, c5, crc_calculate(d5, c5, CRC_INIT_8))
    IN  [dest |-> d6, payload_offset |-> 0, size |-> c5 + 1]

\* uncompressed_code_IR_packet
uncompressed_code_IR_packet(ctx, comp, ip, dest, dest_size) ==
    LET cv == code_cid_values(comp.cid_type, ctx.cid, dest, dest_size)
        d2 == Write(cv.dest, cv.first_position, 252)
        d4 == Write(d2, cv.counter, ROHC_PROFILE_UNCOMPRESSED)
        c5 == cv.counter + 1
        d5 == Write(d4, c5, 0)
        d6 == Write(d5, c5, crc_calculate(d5, c5 + 1, CRC_INIT_8))
    IN  [dest |-> d6, payload_offset |-> 0, size |-> c5 + 1]

\* mutant of uncompressed_code_normal_packet: payload_offset is 0 as it is
\* for the IR packet
uncompressed_code_normal_packet_Offset0(ctx, comp, ip, dest, dest_size) ==
    LET cv == code_cid_values(comp.cid_type, ctx.cid, dest, dest_size)
    IN  [dest |-> Write(cv.dest, cv.first_position, ip[1]),
         payload_offset |-> 0, size |-> cv.counter]

\* uncompressed_code_normal_packet
uncompressed_code_normal_packet(ctx, comp, ip, dest, dest_size) ==
    LET cv == code_cid_values(comp.cid_type, ctx.cid, dest, dest_size)
    IN  [dest |-> Write(cv.dest, cv.first_position, ip[1]),
         payload_offset |-> 1, size |-> cv.counter]

\* mutant of uncompressed_code_packet: the Normal packet is coded in IR
\* state too
uncompressed_code_packet_NormalInIR(ctx, comp, ip, dest, dest_size) ==
    CASE ctx.state = IR ->
           [context |-> [ctx EXCEPT !.ir_count = @ + 1],
            packet_type |-> PACKET_IR,
            coded |-> uncompressed_code_normal_packet(ctx, comp, ip, dest,
                                                      dest_size)]
      [] ctx.state = FO ->
           [context |-> [ctx EXCEPT !.normal_count = @ + 1],
            packet_type |-> PACKET_NORMAL,
            coded |-> uncompressed_code_normal_packet(ctx, comp, ip, dest,
                                                      dest_size)]
      [] OTHER ->
           [context |-> ctx,
            packet_type |-> PACKET_UNKNOWN,
            coded |-> [dest |-> dest, payload_offset |-> UNWRITTEN, size |-> -1]]

\* uncompressed_code_packet: the counter of the state is advanced, then the
\* packet of the state is coded
uncompressed_code_packet(ctx, comp, ip, dest, dest_size) ==
    CASE ctx.state = IR ->
           [context |-> [ctx EXCEPT !.ir_count = @ + 1],
            packet_type |-> PACKET_IR,
            coded |-> uncompressed_code_IR_packet(ctx, comp, ip, dest, dest_size)]
      [] ctx.state = FO ->
           [context |-> [ctx EXCEPT !.normal_count = @ + 1],
            packet_type |-> PACKET_NORMAL,
            coded |-> uncompressed_code_normal_packet(ctx, comp, ip, dest,
                                                      dest_size)]
      [] OTHER ->
           [context |-> ctx,
            packet_type |-> PACKET_UNKNOWN,
            coded |-> [dest |-> dest, payload_offset |-> UNWRITTEN, size |-> -1]]

\* c_uncompressed_encode: decide the state, then code the packet
c_uncompressed_encode(ctx, comp, ip, dest, dest_size) ==
    uncompressed_code_packet(uncompressed_decide_state(ctx, comp), comp, ip,
                             dest, dest_size)

(***************************************************************************)
(* Feedback of the Uncompressed profile                                    *)
(***************************************************************************)
\* The option loop of c_uncompressed_feedback. p is the (1-based) place of
\* p[0] in feedback->data; beyond is the octet that lies after the last
\* octet of the feedback, read and overwritten when a CRC option is the
\* last octet of the feedback.
RECURSIVE feedback_parse_options(_, _, _, _, _)
feedback_parse_options(data, p, remaining, beyond, acc) ==
    IF remaining <= 0 THEN [acc EXCEPT !.data = data]
    ELSE LET opt    == data[p] \div 16
             optlen == data[p] % 16
             inside == p + 1 <= Len(data)
             acc1   == IF opt = 1
                       THEN [acc EXCEPT
                               !.crc_in_packet =
                                   IF inside THEN data[p + 1] ELSE beyond,
                               !.is_crc_used = TRUE,
                               !.outside = @ \/ ~inside]
                       ELSE acc
             data1  == IF opt = 1 /\ inside
                       THEN [data EXCEPT ![p + 1] = 0]
                       ELSE data
         IN  feedback_parse_options(data1, p + 1 + optlen,
                                    remaining - (1 + optlen), beyond, acc1)

\* Whether the option loop of c_uncompressed_feedback reads or writes an
\* octet that lies after the specific_size octets of the feedback
feedback_options_outside(feedback, beyond) ==
    /\ feedback.type = 2
    /\ feedback_parse_options(
           feedback.data, feedback.specific_offset + 3,
           feedback.specific_size - 2, beyond,
           [data |-> feedback.data, crc_in_packet |-> 0,
            is_crc_used |-> FALSE, outside |-> FALSE]).outside

\* mutant of c_uncompressed_feedback: STATIC_NACK handled as NACK is
c_uncompressed_feedback_NoStaticNack(ctx, feedback, beyond) ==
    IF feedback.type = 1 THEN ctx
    ELSE IF feedback.type = 2
    THEN LET p0     == feedback.specific_offset + 1
             mode   == (feedback.data[p0] \div 16) % 4
             parsed == feedback_parse_options(
                           feedback.data, p0 + 2, feedback.specific_size - 2,
                           beyond,
                           [data |-> feedback.data, crc_in_packet |-> 0,
                            is_crc_used |-> FALSE, outside |-> FALSE])
             crc_computed == crc_calculate(parsed.data, feedback.size,
                                           CRC_INIT_8)
         IN  IF parsed.is_crc_used /\ parsed.crc_in_packet # crc_computed
             THEN ctx
             ELSE IF mode # 0 /\ parsed.is_crc_used
                  THEN uncompressed_change_mode(ctx, mode)
                  ELSE ctx
    ELSE ctx

\* mutant of c_uncompressed_feedback: the CRC of the CRC option is not
\* compared with the CRC computed
c_uncompressed_feedback_NoCrcCheck(ctx, feedback, beyond) ==
    IF feedback.type = 1 THEN ctx
    ELSE IF feedback.type = 2
    THEN LET p0     == feedback.specific_offset + 1
             mode   == (feedback.data[p0] \div 16) % 4
             parsed == feedback_parse_options(
                           feedback.data, p0 + 2, feedback.specific_size - 2,
                           beyond,
                           [data |-> feedback.data, crc_in_packet |-> 0,
                            is_crc_used |-> FALSE, outside |-> FALSE])
             c1 == IF mode # 0 /\ parsed.is_crc_used
                   THEN uncompressed_change_mode(ctx, mode)
                   ELSE ctx
         IN  IF feedback.acktype = STATIC_NACK
             THEN uncompressed_change_state(c1, IR)
             ELSE c1
    ELSE ctx

\* mutant of c_uncompressed_feedback: a FEEDBACK-2 without CRC option is
\* ignored
c_uncompressed_feedback_CrcRequired(ctx, feedback, beyond) ==
    IF feedback.type = 1 THEN ctx
    ELSE IF feedback.type = 2
    THEN LET p0     == feedback.specific_offset + 1
             mode   == (feedback.data[p0] \div 16) % 4
             parsed == feedback_parse_options(
                           feedback.data, p0 + 2, feedback.specific_size - 2,
                           beyond,
                           [data |-> feedback.data, crc_in_packet |-> 0,
                            is_crc_used |-> FALSE, outside |-> FALSE])
             crc_computed == crc_calculate(parsed.data, feedback.size,
                                           CRC_INIT_8)
         IN  IF ~parsed.is_crc_used
                \/ parsed.crc_in_packet # crc_computed
             THEN ctx
             ELSE LET c1 == IF mode # 0
                            THEN uncompressed_change_mode(ctx, mode)
                            ELSE ctx
                  IN  IF feedback.acktype = STATIC_NACK
                      THEN uncompressed_change_state(c1, IR)
                      ELSE c1
    ELSE ctx

\* c_uncompressed_feedback
c_uncompressed_feedback(ctx, feedback, beyond) ==
    IF feedback.type = 1 THEN ctx
    ELSE IF feedback.type = 2
    THEN LET p0     == feedback.specific_offset + 1
             mode   == (feedback.data[p0] \div 16) % 4
             parsed == feedback_parse_options(
                           feedback.data, p0 + 2, feedback.specific_size - 2,
                           beyond,
                           [data |-> feedback.data, crc_in_packet |-> 0,
                            is_crc_used |-> FALSE, outside |-> FALSE])
             crc_computed == crc_calculate(parsed.data, feedback.size,
                                           CRC_INIT_8)
         IN  IF parsed.is_crc_used /\ parsed.crc_in_packet # crc_computed
             THEN ctx
             ELSE LET c1 == IF mode # 0 /\ parsed.is_crc_used
                            THEN uncompressed_change_mode(ctx, mode)
                            ELSE ctx
                  IN  IF feedback.acktype = STATIC_NACK
                      THEN uncompressed_change_state(c1, IR)
                      ELSE c1
    ELSE ctx

(***************************************************************************)
(* The UDP profile (c_udp.c) on the generic RFC 3095 engine                *)
(***************************************************************************)
\* udp_checksum_change_count is a size_t. The values within reach of
\* SIZE_MAX are written as negative numbers, -k for SIZE_MAX + 1 - k, so
\* that ++ wraps from SIZE_MAX (-1) to 0 and < compares as unsigned.
SizeIncr(v) == v + 1

SizeLess(a, b) == IF (a < 0) = (b < 0) THEN a < b ELSE b < 0

\* c_udp_create: the generic part in IR state, then the UDP part
c_udp_create(udp) ==
    [state |-> IR, num_sent_in_current_state |-> 0,
     udp_checksum_change_count |-> 0, old_udp |-> udp,
     send_udp_dynamic |-> -1]

\* mutant of udp_changed_udp_dynamic: <= for < in the test of
\* udp_checksum_change_count
udp_changed_udp_dynamic_LE(ctx, comp, udp) ==
    LET flip == \/ (udp.check # 0 /\ ctx.old_udp.check = 0)
                \/ (udp.check = 0 /\ ctx.old_udp.check # 0)
    IN  IF flip \/ ~SizeLess(comp.oa_repetitions_nr,
                             ctx.udp_checksum_change_count)
        THEN [context |-> IF flip
                          THEN [ctx EXCEPT !.udp_checksum_change_count = 0]
                          ELSE ctx,
              result |-> 1]
        ELSE [context |-> ctx, result |-> 0]

\* mutant of udp_changed_udp_dynamic: only the count of repetitions is
\* tested, not the checksums
udp_changed_udp_dynamic_NoFlip(ctx, comp, udp) ==
    IF SizeLess(ctx.udp_checksum_change_count, comp.oa_repetitions_nr)
    THEN [context |-> ctx, result |-> 1]
    ELSE [context |-> ctx, result |-> 0]

\* udp_changed_udp_dynamic: the result and the context it leaves
udp_changed_udp_dynamic(ctx, comp, udp) ==
    LET flip == \/ (udp.check # 0 /\ ctx.old_udp.check = 0)
                \/ (udp.check = 0 /\ ctx.old_udp.check # 0)
    IN  IF flip \/ SizeLess(ctx.udp_checksum_change_count,
                            comp.oa_repetitions_nr)
        THEN [context |-> IF flip
                          THEN [ctx EXCEPT !.udp_checksum_change_count = 0]
                          ELSE ctx,
              result |-> 1]
        ELSE [context |-> ctx, result |-> 0]

\* rohc_comp_rfc3095_decide_state: static change -> IR, dynamic change -> FO,
\* else IR -> FO -> SO after oa_repetitions_nr packets sent in the state
rohc_comp_rfc3095_decide_state(ctx, comp, hdrs) ==
    LET enough == ctx.num_sent_in_current_state >= comp.oa_repetitions_nr
    IN  CASE hdrs.changed = "static" -> IR
          [] hdrs.changed = "dynamic" ->
               IF ctx.state = IR /\ ~enough THEN IR ELSE FO
          [] OTHER ->
               IF ctx.state = IR THEN (IF enough THEN FO ELSE IR)
               ELSE IF ctx.state = FO THEN (IF enough THEN SO ELSE FO)
               ELSE SO

\* mutant of udp_decide_state: a packet that must carry the UDP checksum in
\* its dynamic chain goes to FO state (IR-DYN) when the context left IR
udp_decide_state_ForcesFO(ctx, comp, hdrs) ==
    IF ctx.send_udp_dynamic # 0
    THEN (IF ctx.state = IR THEN IR ELSE FO)
    ELSE rohc_comp_rfc3095_decide_state(ctx, comp, hdrs)

\* mutant of udp_decide_state: the state of the generic engine, whatever
\* send_udp_dynamic
udp_decide_state_Generic(ctx, comp, hdrs) ==
    rohc_comp_rfc3095_decide_state(ctx, comp, hdrs)

\* udp_decide_state
udp_decide_state(ctx, comp, hdrs) ==
    IF ctx.send_udp_dynamic # 0
    THEN IR
    ELSE rohc_comp_rfc3095_decide_state(ctx, comp, hdrs)

\* udp_code_uo_remainder: the new position in the packet
udp_code_uo_remainder(udp, counter) ==
    counter + (IF udp.check # 0 THEN 2 ELSE 0)

\* udp_code_static_udp_part: the new position in the packet
udp_code_static_udp_part(udp, counter) == counter + 2 + 2

\* mutant of udp_code_dynamic_udp_part: udp_checksum_change_count is not
\* incremented
udp_code_dynamic_udp_part_NoCount(ctx, udp, counter) ==
    [context |-> ctx, counter |-> counter + 2]

\* udp_code_dynamic_udp_part: the new position and the context it leaves
udp_code_dynamic_udp_part(ctx, udp, counter) ==
    [context |-> [ctx EXCEPT !.udp_checksum_change_count = SizeIncr(@)],
     counter |-> counter + 2]

\* packet chosen by the generic engine for the state decided
rfc3095_decide_packet(state, hdrs) ==
    IF state = IR THEN ROHC_PACKET_IR
    ELSE IF state = FO
    THEN (IF hdrs.changed = "dynamic" THEN ROHC_PACKET_IR_DYN
                                      ELSE ROHC_PACKET_UOR_2)
    ELSE ROHC_PACKET_UO_0

\* octets of the packet before the UDP parts: type, profile and CRC octets
\* and the IPv4 static (10) and dynamic (5) chains and the SN (2) for IR,
\* IR-DYN; 2 octets for UOR-2, 1 for UO-0
rfc3095_base_len(packet_type) ==
    CASE packet_type = ROHC_PACKET_IR     -> 3 + 10 + 5 + 2
      [] packet_type = ROHC_PACKET_IR_DYN -> 3 + 5 + 2
      [] packet_type = ROHC_PACKET_UOR_2  -> 2
      [] OTHER                            -> 1

\* length of the packet with the UDP parts of the profile
rfc3095_packet_len(packet_type, udp) ==
    LET base == rfc3095_base_len(packet_type)
    IN  CASE packet_type = ROHC_PACKET_IR ->
               udp_code_static_udp_part(udp, base) + 2
          [] packet_type = ROHC_PACKET_IR_DYN -> base + 2
          [] OTHER -> udp_code_uo_remainder(udp, base)

\* rohc_comp_rfc3095_encode: decide the state and the packet; a packet that
\* does not fit in rohc_pkt_max_len fails with the context as it was; else
\* the state is changed, the packet coded and the counters advanced
rohc_comp_rfc3095_encode(ctx, comp, hdrs, rohc_pkt_max_len) ==
    LET next_state  == udp_decide_state(ctx, comp, hdrs)
        packet_type == rfc3095_decide_packet(next_state, hdrs)
        len         == rfc3095_packet_len(packet_type, hdrs.udp)
        c1 == IF ctx.state # next_state
              THEN [ctx EXCEPT !.state = next_state,
                               !.num_sent_in_current_state = 0]
              ELSE ctx
        c2 == [c1 EXCEPT !.num_sent_in_current_state = @ + 1]
        c3 == IF packet_type \in {ROHC_PACKET_IR, ROHC_PACKET_IR_DYN}
              THEN udp_code_dynamic_udp_part(c2, hdrs.udp, 0).context
              ELSE c2
    IN  IF len > rohc_pkt_max_len
        THEN [context |-> ctx, size |-> -1, packet_type |-> packet_type]
        ELSE [context |-> c3, size |-> len, packet_type |-> packet_type]

\* mutant of c_udp_encode: old_udp follows every packet that was encoded
c_udp_encode_UpdateOnUO(ctx, comp, hdrs, rohc_pkt_max_len) ==
    LET chg == udp_changed_udp_dynamic(ctx, comp, hdrs.udp)
        c1  == [chg.context EXCEPT !.send_udp_dynamic = chg.result]
        r   == rohc_comp_rfc3095_encode(c1, comp, hdrs, rohc_pkt_max_len)
    IN  IF r.size < 0 THEN r
        ELSE [r EXCEPT !.context.old_udp = hdrs.udp]

\* c_udp_encode
c_udp_encode(ctx, comp, hdrs, rohc_pkt_max_len) ==
    LET chg == udp_changed_udp_dynamic(ctx, comp, hdrs.udp)
        c1  == [chg.context EXCEPT !.send_udp_dynamic = chg.result]
        r   == rohc_comp_rfc3095_encode(c1, comp, hdrs, rohc_pkt_max_len)
    IN  IF r.size < 0 THEN r
        ELSE IF r.packet_type \in {ROHC_PACKET_IR, ROHC_PACKET_IR_DYN}
        THEN [r EXCEPT !.context.old_udp = hdrs.udp]
        ELSE r

(***************************************************************************)
(* Inputs                                                                  *)
(***************************************************************************)
\* first octets of the IP packets handed to encode (IPv4, IPv6)
IpPackets == {<<69, 0, 20>>, <<96, 1>>}

\* (cid_type, cid) of the contexts explored
CidConfigs == {<<ROHC_SMALL_CID, 0>>, <<ROHC_SMALL_CID, 3>>,
               <<ROHC_LARGE_CID, 5>>, <<ROHC_LARGE_CID, 300>>}

\* Options of a FEEDBACK-2, after its two-octet header. crc_pos is the place
\* of the value of the CRC option among octets, 0 for none; crc_opt says
\* what the feedback carries: no CRC option, one with its value octet, or
\* one cut before its value octet.
OptionTemplates ==
    { [prefix |-> <<>>,    octets |-> <<>>,             crc_pos |-> 0,
       crc_opt |-> "none",      malformed |-> FALSE],
      [prefix |-> <<>>,    octets |-> <<17, 0>>,        crc_pos |-> 2,
       crc_opt |-> "present",   malformed |-> FALSE],
      [prefix |-> <<225>>, octets |-> <<65, 7, 17, 0>>, crc_pos |-> 4,
       crc_opt |-> "present",   malformed |-> FALSE],
      [prefix |-> <<>>,    octets |-> <<48>>,           crc_pos |-> 0,
       crc_opt |-> "none",      malformed |-> FALSE],
      [prefix |-> <<>>,    octets |-> <<17>>,           crc_pos |-> 0,
       crc_opt |-> "truncated", malformed |-> TRUE],
      [prefix |-> <<>>,    octets |-> <<79, 1>>,        crc_pos |-> 0,
       crc_opt |-> "none",      malformed |-> TRUE] }

\* struct c_feedback as the compressor hands it to the profile: data is the
\* whole feedback, the profile-specific part starts after specific_offset
\* octets and begins with AT:2 Mode:2 SN:4, SN:8. The fields crc_opt,
\* crc_good, mode_bits and malformed describe how the input was built.
BuildFeedback2(at, mode, tpl, good) ==
    LET head  == tpl.prefix \o <<(64 * at) + (16 * mode), 5>>
        data0 == head \o tpl.octets
        crc   == crc_calculate(data0, Len(data0), CRC_INIT_8)
        data  == IF tpl.crc_pos = 0 THEN data0
                 ELSE [data0 EXCEPT ![Len(head) + tpl.crc_pos] =
                          IF good THEN crc ELSE (crc + 1) % 256]
    IN  [type |-> 2, acktype |-> at, data |-> data, size |-> Len(data),
         specific_offset |-> Len(tpl.prefix),
         specific_size |-> Len(data) - Len(tpl.prefix),
         crc_opt |-> tpl.crc_opt, crc_good |-> good,
         mode_bits |-> mode, malformed |-> tpl.malformed]

Feedback1 ==
    [type |-> 1, acktype |-> ACK, data |-> <<5>>, size |-> 1,
     specific_offset |-> 0, specific_size |-> 1,
     crc_opt |-> "none", crc_good |-> TRUE, mode_bits |-> 0,
     malformed |-> FALSE]

FeedbackInputs ==
    {Feedback1} \cup
    UNION { { BuildFeedback2(at, mode, tpl, good) :
                at \in {ACK, NACK, STATIC_NACK, RESERVED}, mode \in 0..3,
                good \in IF tpl.crc_pos = 0 THEN {TRUE} ELSE BOOLEAN } :
            tpl \in OptionTemplates }

\* What the octet after the feedback may hold when the options read it. The
\* code only compares it with the CRC it computes, so one value that equals
\* that CRC and one that differs stand for the 256.
BeyondValues(feedback) ==
    IF feedback.crc_opt = "truncated"
    THEN LET crc == crc_calculate(feedback.data, feedback.size, CRC_INIT_8)
         IN  {crc, (crc + 1) % 256}
    ELSE {0}

(***************************************************************************)
(* Initial state: a compressor and a context just created                  *)
(***************************************************************************)
\* c_uncompressed_create, after the context was set up in IR state, U-mode
c_uncompressed_create(cid) ==
    [cid |-> cid, state |-> IR, mode |-> U_MODE,
     ir_count |-> 0, normal_count |-> 0, go_back_ir_count |-> 0]

\* no UDP flow
UdpIdle ==
    /\ udp_context = c_udp_create([source |-> 0, dest |-> 0, check |-> 0])
    /\ udp_last = [op |-> "none"]

InitWith(cids, timeouts) ==
    /\ \E cfg \in cids, t \in timeouts :
         /\ compressor = [cid_type |-> cfg[1],
                          periodic_refreshes_ir_timeout |-> t]
         /\ context = c_uncompressed_create(cfg[2])
    /\ last = [op |-> "create"]
    /\ hist = [npkts |-> 0, fb_seen |-> FALSE, run |-> 0, snack |-> FALSE]
    /\ UdpIdle

(***************************************************************************)
(* Actions                                                                 *)
(***************************************************************************)
\* number of encode calls counted exactly by hist.npkts
NpktsCap == MAX_IR_COUNT + compressor.periodic_refreshes_ir_timeout + 2

\* One packet compressed on the context: the compressor asks the profile
\* whether the packet belongs to the context (c_uncompressed_check_context)
\* and, if so, calls c_uncompressed_encode; a packet no context takes is an
\* error for the caller. hist counts the calls and the current
\* run of Normal packets for as long as no feedback was delivered; the call
\* records whether a STATIC-NACK with a valid CRC option was delivered to
\* the context in FO state since the call before.
EncodeWith(ips, sizes) ==
    /\ context.normal_count <
           compressor.periodic_refreshes_ir_timeout + MaxOverrun
    /\ \E ip \in ips, dest_size \in sizes :
         LET found == c_uncompressed_check_context(context, ip)
             r == IF found = 1
                  THEN c_uncompressed_encode(context, compressor, ip, <<>>,
                                             dest_size)
                  ELSE [context |-> context, packet_type |-> PACKET_UNKNOWN,
                        coded |-> [dest |-> <<>>,
                                   payload_offset |-> UNWRITTEN, size |-> -1]]
         IN  /\ context' = r.context
             /\ last' = [op |-> "encode", size |-> r.coded.size,
                         found |-> found,
                         packet_type |-> r.packet_type,
                         payload_offset |-> r.coded.payload_offset,
                         dest |-> r.coded.dest, dest_size |-> dest_size,
                         ip |-> ip, after_snack |-> hist.snack]
             /\ hist' = IF hist.fb_seen THEN [hist EXCEPT !.snack = FALSE]
                        ELSE [hist EXCEPT
                                !.npkts = Min(@ + 1, NpktsCap),
                                !.run = IF r.packet_type = PACKET_NORMAL
                                        THEN @ + 1 ELSE 0]
    /\ UNCHANGED <<compressor, udp_vars>>

\* One call of c_uncompressed_feedback
Feedback ==
    /\ \E feedback \in FeedbackInputs :
         \E beyond \in BeyondValues(feedback) :
           /\ context' = c_uncompressed_feedback(context, feedback, beyond)
           /\ last' = [op |-> "feedback", type |-> feedback.type,
                       acktype |-> feedback.acktype,
                       mode_bits |-> feedback.mode_bits,
                       crc_opt |-> feedback.crc_opt,
                       crc_good |-> feedback.crc_good,
                       malformed |-> feedback.malformed,
                       outside |-> feedback_options_outside(feedback, beyond),
                       pre_state |-> context.state]
           /\ hist' = [npkts |-> 0, fb_seen |-> TRUE, run |-> 0,
                       snack |-> \/ hist.snack
                                 \/ /\ feedback.type = 2
                                    /\ feedback.acktype = STATIC_NACK
                                    /\ feedback.crc_opt = "present"
                                    /\ feedback.crc_good
                                    /\ context.state = FO]
    /\ UNCHANGED <<compressor, udp_vars>>

\* The compressor with a reverse channel: packets of one flow are encoded
\* into a buffer large enough for every header, feedback arrives at any time
Encode == EncodeWith({<<69>>}, {MaxDestSize})

Init == InitWith({<<ROHC_SMALL_CID, 0>>}, 1..MaxIrTimeout)

Next == Encode \/ Feedback

Spec == Init /\ [][Next]_vars

\* The compressor without a reverse channel, for every CID, packet and
\* buffer size
EncodeAny == EncodeWith(IpPackets, 0..MaxDestSize)

InitNoFeedback == InitWith(CidConfigs, (1..MaxIrTimeout) \cup {100})

NextNoFeedback == EncodeAny

SpecNoFeedback == InitNoFeedback /\ [][NextNoFeedback]_vars

(***************************************************************************)
(* The UDP flow: packets of one flow are encoded on one UDP context        *)
(***************************************************************************)
\* UDP headers of the flow: the ports are static, the checksum is not
UdpHeaders == { [source |-> 1000, dest |-> 2000, check |-> c] :
                  c \in {0, 4660, 22136} }

\* uncompressed headers handed to encode: the UDP header and what the
\* generic engine detects as changed in the IP headers
PacketHeaders == { [udp |-> u, changed |-> ch] :
                     u \in UdpHeaders, ch \in {"none", "dynamic", "static"} }

\* rohc_pkt_max_len of the callers explored: too small for an IR packet,
\* too small for any packet, large enough for all
UdpMaxLens == {0, 10, 100}

udp_compressor == [oa_repetitions_nr |-> 3]

UdpInit ==
    /\ \E u \in UdpHeaders : udp_context = c_udp_create(u)
    /\ udp_last = [op |-> "create", fresh |-> 0, scen |-> 0]

\* the checksum of the packet and the checksum of the context differ in
\* zero-ness
ChecksumFlip(ctx, udp) ==
    (udp.check = 0) # (ctx.old_udp.check = 0)

\* the checksum behaviour of the flow is established: the last packet was
\* not forced to IR by the UDP profile
SteadyState(ctx) ==
    /\ ctx.send_udp_dynamic = 0
    /\ ~SizeLess(ctx.udp_checksum_change_count,
                 udp_compressor.oa_repetitions_nr)

\* places counted exactly by udp_last.fresh and udp_last.scen
FreshCap == udp_compressor.oa_repetitions_nr + 2
ScenCap == (2 * udp_compressor.oa_repetitions_nr) + 2

\* One call of c_udp_encode; the first packet of the flow is the one the
\* context was created from. udp_last.fresh is the number of the packet on
\* the context for as long as every call succeeded and no checksum differed
\* in zero-ness from the one of the context (-1 after that). udp_last.scen
\* is the position of the packet in a run that starts with a packet without
\* checksum coming in steady state after packets with a checksum, and goes
\* on with packets without checksum, all without another change and all
\* encoded successfully (0 outside such a run).
UdpEncode ==
    /\ udp_context.num_sent_in_current_state < MaxUdpCount
    /\ udp_context.udp_checksum_change_count < MaxUdpCount
    /\ \E hdrs \in PacketHeaders, max_len \in UdpMaxLens :
         LET r    == c_udp_encode(udp_context, udp_compressor, hdrs, max_len)
             flip == ChecksumFlip(udp_context, hdrs.udp)
             quiet == /\ r.size >= 0 /\ hdrs.changed = "none"
                      /\ hdrs.udp.check = 0
         IN  /\ udp_last.op = "create" => hdrs.udp = udp_context.old_udp
             /\ udp_context' = r.context
             /\ udp_last' = [op |-> "encode", size |-> r.size,
                             packet_type |-> r.packet_type,
                             udp |-> hdrs.udp, changed |-> hdrs.changed,
                             rohc_pkt_max_len |-> max_len,
                             flip |-> flip,
                             fresh |-> IF udp_last.fresh >= 0 /\ ~flip
                                          /\ r.size >= 0
                                       THEN Min(udp_last.fresh + 1, FreshCap)
                                       ELSE -1,
                             scen |-> IF quiet /\ flip
                                         /\ SteadyState(udp_context)
                                      THEN 1
                                      ELSE IF quiet /\ udp_last.scen >= 1
                                      THEN Min(udp_last.scen + 1, ScenCap)
                                      ELSE 0]

UncIdle ==
    /\ compressor = [cid_type |-> ROHC_SMALL_CID,
                     periodic_refreshes_ir_timeout |-> 1]
    /\ context = c_uncompressed_create(0)
    /\ last = [op |-> "create"]
    /\ hist = [npkts |-> 0, fb_seen |-> FALSE, run |-> 0, snack |-> FALSE]

InitUdp == UncIdle /\ UdpInit

NextUdp == UdpEncode /\ UNCHANGED unc_vars

SpecUdp == InitUdp /\ [][NextUdp]_vars

\* The UDP flow of a context that has lived long: udp_checksum_change_count
\* is within MaxWrapDistance of SIZE_MAX after that many dynamic chains, the
\* checksum behaviour is established and the context is in SO state
UdpInitLong ==
    /\ \E u \in UdpHeaders, k \in 1..MaxWrapDistance :
         udp_context = [state |-> SO, num_sent_in_current_state |-> 1,
                        udp_checksum_change_count |-> -k, old_udp |-> u,
                        send_udp_dynamic |-> 0]
    /\ udp_last = [op |-> "resume", fresh |-> -1, scen |-> 0]

InitUdpLong == UncIdle /\ UdpInitLong

SpecUdpLong == InitUdpLong /\ [][NextUdp]_vars

(***************************************************************************)
(* Claims                                                                  *)
(***************************************************************************)
IsEncode(l) == l.op = "encode"
IsFeedback(l) == l.op = "feedback"
IrTimeout == compressor.periodic_refreshes_ir_timeout

\* C1: no partial context update: when an encode call fails (negative
\* return) the context is as it was before the call; for the UDP profile
\* udp_checksum_change_count and old_udp are unchanged.
C1_NoPartialContextUpdate ==
    [][(IsEncode(udp_last') /\ udp_last'.size < 0) =>
         /\ udp_context'.udp_checksum_change_count =
                udp_context.udp_checksum_change_count
         /\ udp_context'.old_udp = udp_context.old_udp]_vars

\* length of the header of an Uncompressed packet: Add-CID octet or large
\* CID info, the first octet and, for IR, the profile and CRC octets
UncompressedHeaderLen(cid_type, cid, packet_type) ==
    (IF cid_type = ROHC_SMALL_CID THEN (IF cid > 0 THEN 1 ELSE 0)
     ELSE (IF cid < 128 THEN 1 ELSE 2))
    + (IF packet_type = PACKET_IR THEN 3 ELSE 1)

\* C2: output buffer too small: an Uncompressed encode whose dest_size is
\* shorter than the header of the packet fails with a negative length and
\* writes no octet at an index >= dest_size; with dest_size equal to the
\* length of the header it succeeds.
C2_BufferTooSmall ==
    IsEncode(last) =>
      LET need == UncompressedHeaderLen(compressor.cid_type, context.cid,
                                        last.packet_type)
      IN  /\ last.dest_size < need =>
                (last.size < 0 /\ Len(last.dest) <= last.dest_size)
          /\ last.dest_size = need => last.size = need

\* C3: an Uncompressed context is in IR or FO state in every reachable
\* state, whatever encode calls and feedbacks it got, and no encode takes
\* the unknown-state branch (PACKET_UNKNOWN, size -1).
C3_StateIsIRorFO ==
    /\ context.state \in {IR, FO}
    /\ IsEncode(last) =>
         (last.packet_type # PACKET_UNKNOWN /\ last.size # -1)

C3_Witness ==
    /\ IsFeedback(last) /\ last.acktype = NACK /\ last.mode_bits = R_MODE
    /\ context.mode = R_MODE /\ context.state = IR
    /\ context.go_back_ir_count > 0

\* C4: a new context with no feedback emits IR packets on its first
\* MAX_IR_COUNT encode calls and a Normal packet, in FO state, on call
\* number MAX_IR_COUNT + 1.
C4_IRtoFO ==
    (IsEncode(last) /\ ~hist.fb_seen /\ IrTimeout >= 1) =>
      /\ hist.npkts <= MAX_IR_COUNT =>
           (last.packet_type = PACKET_IR /\ context.state = IR
            /\ context.ir_count = hist.npkts)
      /\ hist.npkts = MAX_IR_COUNT + 1 =>
           (last.packet_type = PACKET_NORMAL /\ context.state = FO)

C4_Witness ==
    /\ IsEncode(last) /\ ~hist.fb_seen
    /\ hist.npkts = MAX_IR_COUNT + 1
    /\ last.packet_type = PACKET_NORMAL /\ context.state = FO

\* C5: periodic refresh in U-mode with no feedback: a run of IR packets has
\* MAX_IR_COUNT packets and a run of Normal packets has ir_timeout packets,
\* so the packets repeat with period MAX_IR_COUNT + ir_timeout, and no more
\* than ir_timeout encode calls in a row go without an IR packet.
C5_PeriodicRefresh ==
    /\ [](hist.run <= IrTimeout /\ context.ir_count <= MAX_IR_COUNT)
    /\ [][(IsEncode(last) /\ IsEncode(last')) =>
            /\ (last.packet_type = PACKET_NORMAL
                /\ last'.packet_type = PACKET_IR) => hist.run = IrTimeout
            /\ (last.packet_type = PACKET_IR
                /\ last'.packet_type = PACKET_NORMAL) =>
                   context.ir_count = MAX_IR_COUNT]_vars
    /\ [](hist.npkts \in 1..(NpktsCap - 1) =>
            (last.packet_type = PACKET_IR <=>
               ((hist.npkts - 1) % (MAX_IR_COUNT + IrTimeout)) < MAX_IR_COUNT))

C5_Witness ==
    /\ IsEncode(last) /\ last.packet_type = PACKET_IR
    /\ hist.npkts = MAX_IR_COUNT + IrTimeout + 1
    /\ context.mode = U_MODE /\ ~hist.fb_seen

\* C6 as stated: with ir_timeout = 100 and no feedback the 100th packet
\* encoded on a context is an IR packet.
C6_Packet100IsIR ==
    (IsEncode(last) /\ ~hist.fb_seen /\ IrTimeout = 100
     /\ hist.npkts = 100) => last.packet_type = PACKET_IR

\* C6 as amended: with ir_timeout = 100 and no feedback the MAX_IR_COUNT IR
\* packets of a new context are followed by 100 Normal packets, the 100th
\* packet among them, and the first periodic refresh is the IR packet
\* number MAX_IR_COUNT + 100 + 1.
C6_FirstRefreshAfter100Normal ==
    (IsEncode(last) /\ ~hist.fb_seen /\ IrTimeout = 100) =>
      /\ hist.npkts \in (MAX_IR_COUNT + 1)..(MAX_IR_COUNT + 100) =>
           last.packet_type = PACKET_NORMAL
      /\ hist.npkts = MAX_IR_COUNT + 100 + 1 => last.packet_type = PACKET_IR

C6_Witness ==
    /\ IsEncode(last) /\ ~hist.fb_seen /\ IrTimeout = 100
    /\ hist.npkts = MAX_IR_COUNT + 100 + 1
    /\ last.packet_type = PACKET_IR

\* C7: in O-mode and R-mode an encode call never moves the context from FO
\* to IR and never changes go_back_ir_count: a context in FO emits Normal
\* packets, and only a STATIC-NACK or a change of mode takes it out of FO.
C7_RefreshOnlyInUMode ==
    [][context.mode \in {O_MODE, R_MODE} =>
         /\ IsEncode(last') =>
              /\ context'.go_back_ir_count = context.go_back_ir_count
              /\ context.state = FO =>
                   (context'.state = FO
                    /\ last'.packet_type = PACKET_NORMAL)
         /\ (IsFeedback(last') /\ context.state = FO
             /\ context'.state # FO) =>
              (last'.acktype = STATIC_NACK
               \/ context'.mode # context.mode)]_vars

C7_Witness ==
    /\ IsEncode(last) /\ last.packet_type = PACKET_NORMAL
    /\ context.mode = O_MODE /\ context.state = FO
    /\ context.normal_count > IrTimeout

\* C8: when feedback (a STATIC-NACK or an honored mode change) forces the
\* context back to IR, go_back_ir_count is reset to 0.
C8_RefreshCounterReset ==
    [][(IsFeedback(last') /\ context.state = FO /\ context'.state = IR) =>
         context'.go_back_ir_count = 0]_vars

\* C9: the encode call that follows a FEEDBACK-2 with a valid CRC option and
\* ack-type STATIC-NACK, delivered to a context in FO state, emits an IR
\* packet.
C9_StaticNackThenIR ==
    (IsEncode(last) /\ last.after_snack) =>
      (last.packet_type = PACKET_IR /\ context.state = IR)

C9_Witness ==
    /\ IsEncode(last) /\ last.after_snack
    /\ last.packet_type = PACKET_IR

\* C10: a feedback changes context->mode only if it carries a CRC option
\* whose value is the CRC-8 of the whole feedback with that octet zeroed.
C10_ModeChangeNeedsValidCrc ==
    [][(IsFeedback(last') /\ context'.mode # context.mode) =>
         (last'.crc_opt = "present" /\ last'.crc_good)]_vars

\* C11: a FEEDBACK-2 whose CRC option does not match the CRC-8 of the whole
\* feedback (CRC octet zeroed) is discarded: state, mode, ir_count,
\* normal_count and go_back_ir_count are as before, whatever its ack-type
\* and mode bits.
C11_BadCrcDiscarded ==
    [][(IsFeedback(last') /\ last'.type = 2 /\ last'.crc_opt = "present"
        /\ ~last'.crc_good) => context' = context]_vars

C11_Witness ==
    /\ IsFeedback(last) /\ last.type = 2
    /\ last.crc_opt = "present" /\ ~last.crc_good
    /\ last.acktype = STATIC_NACK /\ last.mode_bits = O_MODE
    /\ last.pre_state = FO /\ context.state = FO /\ context.mode = U_MODE
    /\ context.normal_count > 0

\* C12: a FEEDBACK-2 with malformed options (an option longer than what is
\* left of the feedback, or a CRC option without its value octet) is
\* dropped: the context is as before and the ack-type is not applied.
C12_MalformedDropped ==
    [][(IsFeedback(last') /\ last'.malformed) => context' = context]_vars

\* C13: a NACK moves the context to FO and a STATIC-NACK moves it to IR; ACK
\* and RESERVED change no state. The feedbacks are those the compressor
\* accepts: no CRC option or a valid one, options well formed, no change of
\* mode.
C13_AckTypeHandling ==
    [][(IsFeedback(last') /\ last'.type = 2 /\ ~last'.malformed
        /\ last'.crc_good /\ last'.mode_bits = 0) =>
         /\ last'.acktype = NACK => context'.state = FO
         /\ last'.acktype = STATIC_NACK => context'.state = IR
         /\ last'.acktype \in {ACK, RESERVED} =>
              context'.state = context.state]_vars

OaRepetitionsNr == udp_compressor.oa_repetitions_nr
IsUdpEncode(l) == l.op = "encode"
IsUoPacket(t) == t \in {ROHC_PACKET_UOR_2, ROHC_PACKET_UO_0}
IsDynPacket(t) == t \in {ROHC_PACKET_IR, ROHC_PACKET_IR_DYN}

\* C14: for every packet send_udp_dynamic is true exactly when the checksum
\* of the packet and the one of the context differ in zero-ness or
\* udp_checksum_change_count < oa_repetitions_nr; the detection resets
\* udp_checksum_change_count when the zero-ness differs and leaves it alone
\* otherwise (the count then grows by one if the dynamic part is sent).
C14_ChecksumBehaviourDetection ==
    [][IsUdpEncode(udp_last') =>
         LET flip == ChecksumFlip(udp_context, udp_last'.udp)
             low  == udp_context.udp_checksum_change_count < OaRepetitionsNr
             sent == udp_last'.size >= 0 /\ IsDynPacket(udp_last'.packet_type)
         IN  /\ udp_context'.send_udp_dynamic = 1 <=> (flip \/ low)
             /\ udp_context'.send_udp_dynamic \in {0, 1}
             /\ udp_context'.udp_checksum_change_count =
                   (IF flip THEN 0
                    ELSE udp_context.udp_checksum_change_count)
                   + (IF sent THEN 1 ELSE 0)]_vars

C14_Witness ==
    /\ IsUdpEncode(udp_last) /\ udp_last.flip /\ udp_last.scen = 1
    /\ udp_last.udp.check = 0
    /\ udp_context.send_udp_dynamic = 1
    /\ udp_context.udp_checksum_change_count = 1

\* C15 as stated: in steady state after packets with a checksum, a packet
\* without checksum is emitted as IR, and so are the next oa_repetitions_nr
\* packets; after that the UDP profile forces IR no longer.
C15_FlipThenIRStated ==
    IsUdpEncode(udp_last) =>
      /\ udp_last.scen \in 1..(OaRepetitionsNr + 1) =>
           udp_last.packet_type = ROHC_PACKET_IR
      /\ udp_last.scen > OaRepetitionsNr + 1 =>
           udp_context.send_udp_dynamic = 0

\* C15 as amended: the packet without checksum and the next
\* oa_repetitions_nr - 1 packets are emitted as IR, oa_repetitions_nr IR
\* packets in all; after that the UDP profile forces IR no longer and the
\* packets are UO packets.
C15_FlipThenIR ==
    IsUdpEncode(udp_last) =>
      /\ udp_last.scen \in 1..OaRepetitionsNr =>
           /\ udp_last.packet_type = ROHC_PACKET_IR
           /\ udp_context.send_udp_dynamic = 1
           /\ udp_context.udp_checksum_change_count = udp_last.scen
      /\ udp_last.scen > OaRepetitionsNr =>
           /\ udp_context.send_udp_dynamic = 0
           /\ IsUoPacket(udp_last.packet_type)

C15_Witness ==
    /\ IsUdpEncode(udp_last) /\ udp_last.scen = OaRepetitionsNr + 1
    /\ udp_context.send_udp_dynamic = 0
    /\ IsUoPacket(udp_last.packet_type)
    /\ udp_context.old_udp.check = 0

\* C16: a new UDP context is kept in IR state for its first
\* oa_repetitions_nr packets, each with the checksum in its dynamic chain;
\* from packet oa_repetitions_nr + 1 on send_udp_dynamic is false and the
\* state is the one the generic engine decides.
C16_NewFlowStartsInIR ==
    [][IsUdpEncode(udp_last') =>
         /\ udp_last'.fresh \in 1..OaRepetitionsNr =>
              /\ udp_context'.state = IR
              /\ udp_last'.packet_type = ROHC_PACKET_IR
              /\ udp_context'.send_udp_dynamic = 1
              /\ udp_context'.udp_checksum_change_count = udp_last'.fresh
         /\ udp_last'.fresh > OaRepetitionsNr =>
              /\ udp_context'.send_udp_dynamic = 0
              /\ udp_context'.state =
                    rohc_comp_rfc3095_decide_state(
                        udp_context, udp_compressor,
                        [udp |-> udp_last'.udp,
                         changed |-> udp_last'.changed])]_vars

C16_Witness ==
    /\ IsUdpEncode(udp_last) /\ udp_last.fresh = OaRepetitionsNr + 1
    /\ udp_context.send_udp_dynamic = 0
    /\ udp_context.state = FO
    /\ udp_context.udp_checksum_change_count = OaRepetitionsNr

\* C17: a UO packet of the UDP profile carries the 2 octets of the UDP
\* checksum in its remainder if and only if the checksum of the context
\* (old_udp.check) is not 0: when a UO packet is coded the checksum of the
\* packet is not 0 exactly when the one of the context is not 0.
C17_UoRemainderChecksum ==
    (IsUdpEncode(udp_last) /\ udp_last.size >= 0
     /\ IsUoPacket(udp_last.packet_type)) =>
      /\ (udp_last.size = rfc3095_base_len(udp_last.packet_type) + 2)
            <=> (udp_context.old_udp.check # 0)
      /\ (udp_last.size = rfc3095_base_len(udp_last.packet_type))
            <=> (udp_context.old_udp.check = 0)
      /\ (udp_last.udp.check # 0) <=> (udp_context.old_udp.check # 0)

C17_Witness ==
    /\ IsUdpEncode(udp_last) /\ udp_last.packet_type = ROHC_PACKET_UO_0
    /\ udp_last.size = rfc3095_base_len(ROHC_PACKET_UO_0) + 2
    /\ udp_last.udp.check = 22136 /\ udp_context.old_udp.check = 4660

\* the encode call wrote inside the buffer it was given
InBuffer(l) == l.size >= 0 /\ l.size <= l.dest_size

\* octets of the CID in a packet: the Add-CID octet before the first octet
\* of the packet, or the CID info after it
AddCidOctets(cid_type, cid) ==
    IF cid_type = ROHC_SMALL_CID /\ cid > 0 THEN <<224 + cid>> ELSE <<>>

CidInfoOctets(cid_type, cid) ==
    IF cid_type = ROHC_LARGE_CID
    THEN (IF cid < 128 THEN <<cid>>
          ELSE <<128 + (cid \div 256), cid % 256>>)
    ELSE <<>>

\* header of the IR packet with its CRC octet taken as 0
IRHeaderZeroCrc(cid_type, cid) ==
    AddCidOctets(cid_type, cid) \o <<252>> \o CidInfoOctets(cid_type, cid)
        \o <<0, 0>>

\* C18: the CRC octet of the Uncompressed IR packet is the CRC-8 (init
\* 0xFF) of all the octets of the header (Add-CID octet if any, 0xFC, CID
\* info if any, profile octet, and the CRC octet taken as 0), for every CID
\* and type of CID.
C18_IRCrcValid ==
    (IsEncode(last) /\ last.packet_type = PACKET_IR /\ InBuffer(last)) =>
      LET n      == last.size
          header == IRHeaderZeroCrc(compressor.cid_type, context.cid)
      IN  /\ Len(last.dest) = n
          /\ [last.dest EXCEPT ![n] = 0] = header
          /\ last.dest[n] = crc_calculate(header, Len(header), CRC_INIT_8)

C18_Witness ==
    /\ IsEncode(last) /\ last.packet_type = PACKET_IR /\ InBuffer(last)
    /\ compressor.cid_type = ROHC_LARGE_CID /\ context.cid = 300
    /\ last.size = 5 /\ last.dest[5] # 0

\* what a decompressor rebuilds from the header and the octets the caller
\* copies after it: the Add-CID octet and the CID info are removed, and for
\* IR (first octet 0xFC) the first, profile and CRC octets too
Rebuilt(l, cid_type) ==
    LET add    == IF cid_type = ROHC_SMALL_CID /\ l.dest[1] \div 16 = 14
                  THEN 1 ELSE 0
        first  == l.dest[add + 1]
        kept   == IF first = 252 THEN <<>> ELSE <<first>>
    IN  kept \o SubSeq(l.ip, l.payload_offset + 1, Len(l.ip))

\* C19: round trip of the Uncompressed profile: the header without its
\* Add-CID octet or CID info (and, for IR, without the 0xFC, profile and CRC
\* octets), followed by the octets of the IP packet from payload_offset on,
\* is the IP packet; payload_offset is 0 for IR and 1 for Normal, whose
\* first octet is the first octet of the IP packet.
C19_RoundTrip ==
    (IsEncode(last) /\ InBuffer(last)) =>
      /\ Rebuilt(last, compressor.cid_type) = last.ip
      /\ last.packet_type = PACKET_IR => last.payload_offset = 0
      /\ last.packet_type = PACKET_NORMAL =>
           /\ last.payload_offset = 1
           /\ last.dest[Len(AddCidOctets(compressor.cid_type,
                                          context.cid)) + 1] = last.ip[1]

C19_Witness ==
    /\ IsEncode(last) /\ InBuffer(last)
    /\ last.packet_type = PACKET_NORMAL
    /\ compressor.cid_type = ROHC_SMALL_CID /\ context.cid = 3
    /\ last.ip = <<96, 1>> /\ last.dest = <<227, 96>>

\* C20: the packet type of an Uncompressed encode matches the state used and
\* the format: in IR state PACKET_IR, first octet 0xFC, profile octet 0x00
\* and a length of the CID encoding with the first octet plus 2; in FO state
\* PACKET_NORMAL and a length of the CID encoding with the first octet (1
\* for the small CID 0).
C20_PacketTypeMatchesState ==
    (IsEncode(last) /\ InBuffer(last)) =>
      LET add     == Len(AddCidOctets(compressor.cid_type, context.cid))
          cid_len == UncompressedHeaderLen(compressor.cid_type, context.cid,
                                           PACKET_NORMAL)
      IN  /\ context.state = IR =>
               /\ last.packet_type = PACKET_IR
               /\ last.dest[add + 1] = 252
               /\ last.dest[cid_len + 1] = 0
               /\ last.size = cid_len + 2
          /\ context.state = FO =>
               /\ last.packet_type = PACKET_NORMAL
               /\ last.size = cid_len
               /\ (compressor.cid_type = ROHC_SMALL_CID /\ context.cid = 0)
                    => last.size = 1

C20_Witness ==
    /\ IsEncode(last) /\ InBuffer(last)
    /\ context.state = FO /\ last.packet_type = PACKET_NORMAL
    /\ compressor.cid_type = ROHC_LARGE_CID /\ context.cid = 5
    /\ last.size = 2

\* C21: the Uncompressed profile takes every IP packet for every context
\* (c_uncompressed_check_context returns 1), so with a buffer that holds the
\* header the compression of a packet returns a positive length and no
\* error.
C21_UniversalFallback ==
    /\ \A ip \in IpPackets : c_uncompressed_check_context(context, ip) = 1
    /\ (IsEncode(last)
        /\ last.dest_size >= UncompressedHeaderLen(compressor.cid_type,
                                                   context.cid,
                                                   last.packet_type)) =>
         (last.found = 1 /\ last.size > 0
          /\ last.packet_type \in {PACKET_IR, PACKET_NORMAL})

C21_Witness ==
    /\ IsEncode(last) /\ last.ip[1] \div 16 = 6
    /\ last.found = 1 /\ last.size = 2 /\ last.dest_size = 2
    /\ context.state = FO /\ compressor.cid_type = ROHC_LARGE_CID

\* C22: once udp_checksum_change_count has reached oa_repetitions_nr, no
\* increment, the wrap at the width of the counter included, makes the test
\* udp_checksum_change_count < oa_repetitions_nr true again: only a
\* checksum that differs in zero-ness from the one of the context does.
C22_CounterWrapSafe ==
    [][(IsUdpEncode(udp_last') /\ ~udp_last'.flip
        /\ ~SizeLess(udp_context.udp_checksum_change_count, OaRepetitionsNr))
        => ~SizeLess(udp_context'.udp_checksum_change_count,
                     OaRepetitionsNr)]_vars

\* C26: the checksum behaviour flag forces IR: when send_udp_dynamic is true
\* for a packet, udp_decide_state returns IR whatever the generic engine
\* would decide, and when it is false udp_decide_state returns the state
\* rohc_comp_rfc3095_decide_state returns.
C26_FlagForcesIR ==
    [][(IsUdpEncode(udp_last') /\ udp_last'.size >= 0) =>
         LET hdrs == [udp |-> udp_last'.udp, changed |-> udp_last'.changed]
             generic == rohc_comp_rfc3095_decide_state(
                            udp_context, udp_compressor, hdrs)
         IN  /\ udp_context'.send_udp_dynamic # 0 =>
                  (udp_context'.state = IR
                   /\ udp_last'.packet_type = ROHC_PACKET_IR)
             /\ udp_context'.send_udp_dynamic = 0 =>
                  udp_context'.state = generic]_vars

\* a packet forced to IR while the generic engine alone would have stayed in
\* SO state: the state before the packet is kept in udp_last by no field,
\* so the witness is the first packet of a run without checksum, which
\* comes in steady state with nothing else changed
C26_Witness ==
    /\ IsUdpEncode(udp_last) /\ udp_last.size >= 0
    /\ udp_last.scen = 1 /\ udp_last.changed = "none"
    /\ udp_context.send_udp_dynamic = 1
    /\ udp_context.state = IR /\ udp_context.num_sent_in_current_state = 1

\* b is the number that follows a: a size_t incremented without wrapping
SizeSucc(a, b) == b = a + 1 /\ a # -1

\* C27: udp_checksum_change_count grows by exactly 1 each time the UDP
\* dynamic part is emitted (IR and IR-DYN packets) and by nothing else, so
\* that between two changes of zero-ness of the checksum it is the number
\* of dynamic chains emitted since the last one; a UO packet leaves it as
\* it is.
C27_CountsDynamicChains ==
    [][IsUdpEncode(udp_last') =>
         LET base == IF udp_last'.flip THEN 0
                     ELSE udp_context.udp_checksum_change_count
             sent == udp_last'.size >= 0
                     /\ IsDynPacket(udp_last'.packet_type)
         IN  /\ sent =>
                  SizeSucc(base, udp_context'.udp_checksum_change_count)
             /\ ~sent => udp_context'.udp_checksum_change_count = base]_vars

\* C23: determinism: two contexts with the same configuration that are fed
\* the same packets and feedbacks are in identical states, so a feedback
\* leaves a context in a state that depends on the context and on the
\* octets of the feedback only, not on what lies in memory after them.
C23_Determinism ==
    \A feedback \in FeedbackInputs :
      \A b1, b2 \in BeyondValues(feedback) :
        c_uncompressed_feedback(context, feedback, b1)
          = c_uncompressed_feedback(context, feedback, b2)

\* the packet type of the encode call that would come next for ctx
NextPacketType(ctx) ==
    c_uncompressed_encode(ctx, compressor, <<69>>, <<>>,
                          MaxDestSize).packet_type

\* a FEEDBACK-2 that the compressor does not discard
Applied(l) ==
    /\ IsFeedback(l) /\ l.type = 2 /\ ~l.malformed
    /\ \/ l.crc_opt = "none"
       \/ l.crc_opt = "present" /\ l.crc_good

\* C25: after a FEEDBACK-2 with ack-type STATIC-NACK is applied to a
\* context in any reachable state, state IR with ir_count = MAX_IR_COUNT
\* included, the next encode call emits an IR packet.
C25_StaticNackForcesIR ==
    [][(Applied(last') /\ last'.acktype = STATIC_NACK) =>
         NextPacketType(context') = PACKET_IR]_vars

\* C28: the send counters of the Uncompressed profile count the current
\* state only: in IR state normal_count is 0, in FO state ir_count is 0,
\* ir_count is at most MAX_IR_COUNT and is the number of IR packets emitted
\* since the context last entered IR state.
C28_PerStateCounters ==
    /\ [](/\ context.state = IR => context.normal_count = 0
          /\ context.state = FO => context.ir_count = 0
          /\ context.ir_count \in 0..MAX_IR_COUNT)
    /\ [][/\ IsEncode(last') =>
              LET entered == \/ context.state = FO
                             \/ context.ir_count >= MAX_IR_COUNT
              IN  context'.ir_count =
                      (IF last'.packet_type # PACKET_IR THEN 0
                       ELSE IF entered THEN 1
                       ELSE context.ir_count + 1)
          /\ IsFeedback(last') =>
              context'.ir_count =
                  (IF context.state = FO /\ context'.state = IR THEN 0
                   ELSE context.ir_count)]_vars

\* the last IR packet of a run of MAX_IR_COUNT, in O-mode after a feedback
C28_Witness ==
    /\ IsEncode(last) /\ last.packet_type = PACKET_IR
    /\ context.state = IR /\ context.ir_count = MAX_IR_COUNT
    /\ context.mode = O_MODE /\ hist.fb_seen

\* a FEEDBACK-2 whose mode change request is honored
Honored(l) ==
    /\ IsFeedback(l) /\ l.type = 2 /\ ~l.malformed
    /\ l.crc_opt = "present" /\ l.crc_good /\ l.mode_bits # 0

\* C29: an honored mode change to a mode other than the current one sets
\* context->mode and puts the context in IR state with ir_count and
\* normal_count reset, so that the next packet is an IR packet; a request
\* for the current mode changes neither mode nor state nor counters.
C29_ModeChangeRestartsIR ==
    [][Honored(last') =>
         IF last'.mode_bits # context.mode
         THEN /\ context'.mode = last'.mode_bits
              /\ context'.state = IR
              /\ context'.ir_count = 0 /\ context'.normal_count = 0
              /\ NextPacketType(context') = PACKET_IR
         ELSE last'.acktype # STATIC_NACK => context' = context]_vars

\* C30: a FEEDBACK-2 without CRC option is processed for its ack-type: a
\* STATIC-NACK moves the context to IR state and the mode is not changed;
\* a FEEDBACK-1, or a FEEDBACK-2 with ack-type ACK, NACK or RESERVED and
\* mode bits 0, leaves state, mode and counters as they are.
C30_NoCrcStillProcessed ==
    [][IsFeedback(last') =>
         /\ (last'.type = 2 /\ last'.crc_opt = "none"
             /\ last'.acktype = STATIC_NACK) =>
               (context'.state = IR /\ context'.mode = context.mode)
         /\ (\/ last'.type = 1
             \/ /\ last'.type = 2 /\ last'.acktype # STATIC_NACK
                /\ last'.mode_bits = 0) =>
               context' = context]_vars

\* a STATIC-NACK without CRC option that asked for O-mode, delivered in FO
\* state: the context is in IR state and still in U-mode
C30_Witness ==
    /\ IsFeedback(last) /\ last.type = 2 /\ last.crc_opt = "none"
    /\ ~last.malformed /\ last.acktype = STATIC_NACK
    /\ last.mode_bits = O_MODE /\ last.pre_state = FO
    /\ context.state = IR /\ context.mode = U_MODE
    /\ context.ir_count = 0 /\ context.normal_count = 0

\* C31: with a fixed ir_timeout >= 1, go_back_ir_count stays within
\* 0..ir_timeout in every reachable state; it grows, by one, only in an
\* encode call made in U-mode whose state decision ends in FO state, and it
\* goes back to 0 only in the periodic transition to IR state.
C31_RefreshCounterBound ==
    /\ [](IrTimeout >= 1 => context.go_back_ir_count \in 0..IrTimeout)
    /\ [][/\ context'.go_back_ir_count > context.go_back_ir_count =>
              /\ IsEncode(last') /\ context.mode = U_MODE
              /\ context'.state = FO
              /\ context'.go_back_ir_count = context.go_back_ir_count + 1
          /\ context'.go_back_ir_count < context.go_back_ir_count =>
              /\ IsEncode(last') /\ context.mode = U_MODE
              /\ context.go_back_ir_count >= IrTimeout
              /\ context'.go_back_ir_count = 0
              /\ context'.state = IR
              /\ last'.packet_type = PACKET_IR]_vars

\* the Normal packet that brings go_back_ir_count to ir_timeout, for the
\* largest ir_timeout, in a U-mode context that got a feedback before
C31_Witness ==
    /\ IsEncode(last) /\ last.packet_type = PACKET_NORMAL
    /\ context.mode = U_MODE /\ context.state = FO
    /\ IrTimeout = MaxIrTimeout
    /\ context.go_back_ir_count = IrTimeout
    /\ hist.fb_seen

\* C32: old_udp becomes the UDP header of the packet in a successful encode
\* call whose packet type is IR or IR-DYN and in no other: a call that
\* emits a UO packet or fails leaves it as it is. After every successful
\* call old_udp.check is zero exactly when the checksum of the packet just
\* encoded is zero.
C32_OldUdpOnlyOnDynamic ==
    [][IsUdpEncode(udp_last') =>
         LET sent == udp_last'.size >= 0
                     /\ IsDynPacket(udp_last'.packet_type)
         IN  /\ sent => udp_context'.old_udp = udp_last'.udp
             /\ ~sent => udp_context'.old_udp = udp_context.old_udp
             /\ udp_last'.size >= 0 =>
                  ((udp_context'.old_udp.check = 0)
                     = (udp_last'.udp.check = 0))]_vars

\* a UO packet whose checksum is not the one of old_udp, both non-zero
C32_Witness ==
    /\ IsUdpEncode(udp_last) /\ udp_last.size >= 0
    /\ IsUoPacket(udp_last.packet_type)
    /\ udp_last.udp.check # 0
    /\ udp_context.old_udp.check # 0
    /\ udp_last.udp # udp_context.old_udp

\* C33: the option parsing of a FEEDBACK-2 stays inside the feedback: every
\* octet c_uncompressed_feedback reads or writes in the option loop (the
\* option header p[0], the CRC value p[1] that it zeroes) lies within the
\* specific_size octets of the feedback, whatever its content and length.
C33_ParsingInsideFeedback ==
    IsFeedback(last) => ~last.outside

====
